---- MODULE Spec2Model ----
(***************************************************************************)
(* The posture analysis loop of test3.py (start_ai_camera_loop and         *)
(* analyze_posture_smooth) as a state machine.  One action is one          *)
(* iteration of the while-loop.                                            *)
(*                                                                         *)
(* Numbers.  The program computes with Python floats.  The model keeps     *)
(* them as fixed-point integers: angles in units of 1/AngleScale degree,   *)
(* the neck offset in units of 1/NeckScale, the clock in units of          *)
(* 1/TicksPerSec second.  Every float operation that rounds is modelled by *)
(* a rounding to the grid (RoundDiv), every int() by a truncation          *)
(* (IntTrunc).                                                             *)
(***************************************************************************)
EXTENDS Integers, Sequences, FiniteSets, TLC

(* ------------------------------ configuration -------------------------- *)
POSTURE_ANGLE_THRESHOLD == 145
(* NECK_OFFSET_THRESHOLD = 0.15 and SMOOTH_FACTOR = 0.3 as fractions. *)
NeckThresholdNum == 15
NeckThresholdDen == 100
SmoothNum == 3
SmoothDen == 10
ALARM_TRIGGER_FRAMES == 20
SEDENTARY_LIMIT == 15
GRACE_FRAMES == 5
InitSmoothAngle == 170
InitSmoothNeck == 0

(* ------------------------------ resolution and bounds ------------------ *)
AngleScale == 1
NeckScale == 100
TicksPerSec == 2
MaxSeconds == 17
MaxPersonFrames == 25
MaxMissing == 7
MaxStepFrames == 6       \* consecutive detected frames, taken step by step
MaxTicks == MaxSeconds * TicksPerSec

(* Raw samples <<raw_angle, raw_neck>> the estimator can deliver: an       *)
(* upright frame (the filter's prior) and a hunched one, three of which in *)
(* a row take the smoothed angle from 170 below the threshold.             *)
GoodSample == <<170 * AngleScale, 0>>
HunchSample == <<130 * AngleScale, 0>>
Samples == {GoodSample, HunchSample}
(* The raw samples of the specification of the filter alone: angles and   *)
(* neck offsets below, at and above the thresholds.                        *)
FilterAngles == {115 * AngleScale, 145 * AngleScale, 170 * AngleScale}
FilterNecks == {0, (15 * NeckScale) \div 100, (40 * NeckScale) \div 100}
FilterSamples == FilterAngles \X FilterNecks
(* Amounts by which the clock can have advanced between two readings: not *)
(* at all, or by 5.5 seconds when TicksPerSec is 2 (so that int() has a    *)
(* fraction to drop and three steps pass SEDENTARY_LIMIT).                 *)
ClockSteps == {0, 5 * TicksPerSec + 1}

(* ------------------------------ arithmetic ----------------------------- *)
(* n / d rounded to the nearest integer, ties to even, as a float          *)
(* operation rounds to the nearest representable value.                    *)
RoundDiv(n, d) ==
  LET q == n \div d
      r == n % d
  IN  IF 2 * r < d THEN q
      ELSE IF 2 * r > d THEN q + 1
      ELSE IF q % 2 = 0 THEN q ELSE q + 1

(* Variant of IntTrunc: rounds to the nearest integer instead of           *)
(* truncating.                                                             *)
IntTrunc_Round(n, scale) == RoundDiv(n, scale)

(* Python's int(x) of x = n / scale: truncation toward zero. *)
IntTrunc(n, scale) ==
  IF n >= 0 THEN n \div scale ELSE -((-n) \div scale)

Max(a, b) == IF a >= b THEN a ELSE b

(* ------------------------------ state ---------------------------------- *)
VARIABLES
  now,                   \* the clock: the last value time.time() returned
  system_state,          \* [sit_start_time, is_sitting, duration]
  filter_history,        \* [smooth_angle, smooth_neck]
  missing_person_frames,
  bad_posture_frames,
  ret,                   \* cap.read() delivered a frame in the last iteration
  has_person,            \* the loop's local of that name
  is_bad_frame,          \* the loop's local of that name
  payload,               \* the loop's local: the payload of the last emit
  person_frames,         \* history: detected frames since the last
                         \* no-detection frame (or since start)
  streak,                \* history: [n, m, ok]; while ok, the detected frames
                         \* since a state with counter 0 were n frames
                         \* classified bad followed by m classified good
  temp_text,             \* the loop's local: the text of the last analysis
  visual_text,           \* the loop's locals of these names, while an
  is_bad_final,          \*   iteration is under way
  pc,                    \* where the loop stands in its iteration
  state_lock,            \* who holds state_lock: "free", "loop", "accessor"
  error,                 \* where the last iteration raised, "" if it did not
  loop_alive,            \* the while-loop has not been left
  hull,                  \* history: the least and greatest raw values seen
  recovery               \* history: [on, c0, k]; while on, the last k
                         \* detected frames were classified good and the
                         \* counter was c0 before them

vars == <<now, system_state, filter_history, missing_person_frames,
          bad_posture_frames, ret, has_person, is_bad_frame, payload,
          person_frames, streak, temp_text, visual_text, is_bad_final,
          pc, state_lock, error, loop_alive, hull, recovery>>

(* What an iteration taken in one step leaves alone: between iterations   *)
(* the loop is at the top, does not hold the lock and is running.          *)
Whole ==
  /\ pc = "top"
  /\ loop_alive
  /\ error' = ""
  /\ UNCHANGED <<visual_text, is_bad_final, pc, state_lock, loop_alive>>

Text(label, n) == [label |-> label, arg |-> n]
NoArg == -1

(* ------------------------------ analyze_posture_smooth ----------------- *)
(* Variant of Ema: the previous value is taken whole, not weighted with    *)
(* 1 - alpha.                                                              *)
Ema_PrevUnweighted(raw, prev) ==
  RoundDiv(SmoothNum * raw, SmoothDen) + prev

(* One EMA step: alpha * raw + (1 - alpha) * previous.  Each of the two    *)
(* products is a float operation of its own and rounds on its own; the sum *)
(* of two grid values is on the grid.                                      *)
Ema(raw, prev) ==
  RoundDiv(SmoothNum * raw, SmoothDen)
    + RoundDiv((SmoothDen - SmoothNum) * prev, SmoothDen)

(* Variant of Smooth: the sample is applied twice in a frame. *)
Smooth_Twice(fh, sample) ==
  [smooth_angle |-> Ema(sample[1], Ema(sample[1], fh.smooth_angle)),
   smooth_neck  |-> Ema(sample[2], Ema(sample[2], fh.smooth_neck))]

Smooth(fh, sample) ==
  [smooth_angle |-> Ema(sample[1], fh.smooth_angle),
   smooth_neck  |-> Ema(sample[2], fh.smooth_neck)]

IsHunch(fh) == fh.smooth_angle < POSTURE_ANGLE_THRESHOLD * AngleScale
IsNeckForward(fh) ==
  fh.smooth_neck * NeckThresholdDen > NeckThresholdNum * NeckScale

(* Variant of Classify: the neck offset is tested first. *)
Classify_NeckFirst(fh) ==
  IF IsNeckForward(fh)
    THEN [text |-> Text("Neck Forward", NoArg), is_bad |-> TRUE]
  ELSE IF IsHunch(fh)
    THEN [text |-> Text("Hunchback", IntTrunc(fh.smooth_angle, AngleScale)),
          is_bad |-> TRUE]
  ELSE [text |-> Text("Good", IntTrunc(fh.smooth_angle, AngleScale)),
        is_bad |-> FALSE]

(* The text and the flag analyze_posture_smooth returns for the smoothed   *)
(* values fh.                                                              *)
Classify(fh) ==
  IF IsHunch(fh)
    THEN [text |-> Text("Hunchback", IntTrunc(fh.smooth_angle, AngleScale)),
          is_bad |-> TRUE]
  ELSE IF IsNeckForward(fh)
    THEN [text |-> Text("Neck Forward", NoArg), is_bad |-> TRUE]
  ELSE [text |-> Text("Good", IntTrunc(fh.smooth_angle, AngleScale)),
        is_bad |-> FALSE]

(* The history of the raw values after one more sample. *)
HullAdd(h, sample) ==
  IF ~h.seen
    THEN [seen |-> TRUE, angle_lo |-> sample[1], angle_hi |-> sample[1],
          neck_lo |-> sample[2], neck_hi |-> sample[2]]
    ELSE [seen |-> TRUE,
          angle_lo |-> IF sample[1] < h.angle_lo THEN sample[1] ELSE h.angle_lo,
          angle_hi |-> Max(sample[1], h.angle_hi),
          neck_lo |-> IF sample[2] < h.neck_lo THEN sample[2] ELSE h.neck_lo,
          neck_hi |-> Max(sample[2], h.neck_hi)]

(* ------------------------------ debouncer ------------------------------ *)
(* Variant of Debounce: the decay is not floored at 0. *)
Debounce_NoFloor(counter, bad) ==
  IF bad THEN counter + 1 ELSE counter - 2

(* Variant of Debounce: a good frame takes 1 off the counter, not 2. *)
Debounce_DecayOne(counter, bad) ==
  IF bad THEN counter + 1 ELSE Max(0, counter - 1)

Debounce(counter, bad) ==
  IF bad THEN counter + 1 ELSE Max(0, counter - 2)

(* Variant of AlarmActive: the alarm starts at the threshold itself. *)
AlarmActive_Geq(counter) == counter >= ALARM_TRIGGER_FRAMES

AlarmActive(counter) == counter > ALARM_TRIGGER_FRAMES

(* Variant of ResetCounter: the counter is kept inside the grace period. *)
ResetCounter_AfterGrace(counter, missing) ==
  IF missing > GRACE_FRAMES THEN 0 ELSE counter

(* The counter after a frame without a subject. *)
ResetCounter(counter, missing) == 0

(* The history of the current bad-then-good run, after a detected frame   *)
(* classified bad (or good) that found the counter at c.                   *)
StreakStep(sk, c, bad) ==
  IF bad
    THEN IF sk.ok /\ sk.m = 0 THEN [n |-> sk.n + 1, m |-> 0, ok |-> TRUE]
         ELSE IF c = 0 THEN [n |-> 1, m |-> 0, ok |-> TRUE]
         ELSE [n |-> 0, m |-> 0, ok |-> FALSE]
    ELSE IF sk.ok THEN [n |-> sk.n, m |-> sk.m + 1, ok |-> TRUE]
         ELSE IF c = 0 THEN [n |-> 0, m |-> 1, ok |-> TRUE]
         ELSE [n |-> 0, m |-> 0, ok |-> FALSE]

(* The history of the current run of good frames after a detected frame   *)
(* classified bad, the counter having been c before it.                    *)
RecoveryStep(r, c, bad) ==
  IF bad THEN [on |-> FALSE, c0 |-> 0, k |-> 0]
  ELSE IF r.on THEN [r EXCEPT !.k = @ + 1]
  ELSE [on |-> TRUE, c0 |-> c, k |-> 1]

(* ------------------------------ session -------------------------------- *)
(* Variant of SessionUpdate: the session ends on the 5th missed frame. *)
SessionUpdate_GraceGeq(st, person, missing, t) ==
  IF person THEN
    LET start == IF ~st.is_sitting THEN t ELSE st.sit_start_time
    IN  [sit_start_time |-> start,
         is_sitting     |-> TRUE,
         duration       |-> IntTrunc(t - start, TicksPerSec)]
  ELSE IF missing >= GRACE_FRAMES THEN
    [st EXCEPT !.is_sitting = FALSE, !.duration = 0]
  ELSE st

(* Variant of SessionUpdate: the duration is recomputed on every frame of  *)
(* a session, also without a subject.                                      *)
SessionUpdate_RecomputeInGrace(st, person, missing, t) ==
  IF person THEN
    LET start == IF ~st.is_sitting THEN t ELSE st.sit_start_time
    IN  [sit_start_time |-> start,
         is_sitting     |-> TRUE,
         duration       |-> IntTrunc(t - start, TicksPerSec)]
  ELSE IF missing > GRACE_FRAMES THEN
    [st EXCEPT !.is_sitting = FALSE, !.duration = 0]
  ELSE IF st.is_sitting THEN
    [st EXCEPT !.duration = IntTrunc(t - st.sit_start_time, TicksPerSec)]
  ELSE st

(* Variant of SessionUpdate: the reset forgets to clear the duration. *)
SessionUpdate_KeepDuration(st, person, missing, t) ==
  IF person THEN
    LET start == IF ~st.is_sitting THEN t ELSE st.sit_start_time
    IN  [sit_start_time |-> start,
         is_sitting     |-> TRUE,
         duration       |-> IntTrunc(t - start, TicksPerSec)]
  ELSE IF missing > GRACE_FRAMES THEN
    [st EXCEPT !.is_sitting = FALSE]
  ELSE st

(* Variant of SessionUpdate: only the first session records its start. *)
SessionUpdate_StartOnce(st, person, missing, t) ==
  IF person THEN
    LET start == IF ~st.is_sitting /\ st.sit_start_time = 0
                 THEN t ELSE st.sit_start_time
    IN  [sit_start_time |-> start,
         is_sitting     |-> TRUE,
         duration       |-> IntTrunc(t - start, TicksPerSec)]
  ELSE IF missing > GRACE_FRAMES THEN
    [st EXCEPT !.is_sitting = FALSE, !.duration = 0]
  ELSE st

(* Variant of SessionUpdate: every detection after a missed frame starts   *)
(* the session anew.                                                       *)
SessionUpdate_RestartAfterMiss(st, person, missing, t) ==
  IF person THEN
    LET start == IF ~st.is_sitting \/ missing_person_frames > 0
                 THEN t ELSE st.sit_start_time
    IN  [sit_start_time |-> start,
         is_sitting     |-> TRUE,
         duration       |-> IntTrunc(t - start, TicksPerSec)]
  ELSE IF missing > GRACE_FRAMES THEN
    [st EXCEPT !.is_sitting = FALSE, !.duration = 0]
  ELSE st

(* The session update under state_lock. *)
SessionUpdate(st, person, missing, t) ==
  IF person THEN
    LET start == IF ~st.is_sitting THEN t ELSE st.sit_start_time
    IN  [sit_start_time |-> start,
         is_sitting     |-> TRUE,
         duration       |-> IntTrunc(t - start, TicksPerSec)]
  ELSE IF missing > GRACE_FRAMES THEN
    [st EXCEPT !.is_sitting = FALSE, !.duration = 0]
  ELSE st

Sedentary(st) == st.duration > SEDENTARY_LIMIT

(* Variant of FakePressure: the vector follows the duration. *)
FakePressure_ByDuration(st) ==
  IF st.duration > 0 THEN <<25, 25, 25, 25>> ELSE <<0, 0, 0, 0>>

(* fake_pressure, in hundredths. *)
FakePressure(st) ==
  IF st.is_sitting THEN <<25, 25, 25, 25>> ELSE <<0, 0, 0, 0>>

(* Variant of BuildPayload: the sedentary alert does not replace a posture *)
(* alarm.                                                                  *)
BuildPayload_PostureWins(text, bad_final, person, missing, st) ==
  LET away == (~person) /\ missing > GRACE_FRAMES
      text1 == IF away THEN Text("User Away", NoArg) ELSE text
      over == Sedentary(st) /\ ~bad_final
  IN  [posture_text  |-> IF over THEN Text("Time to Stand up!", NoArg)
                         ELSE text1,
       is_bad        |-> IF over THEN TRUE ELSE bad_final,
       sit_time      |-> st.duration,
       pressure_data |-> FakePressure(st)]

(* Variant of BuildPayload: the text changes on the 5th missed frame. *)
BuildPayload_AwayGeq(text, bad_final, person, missing, st) ==
  LET away == (~person) /\ missing >= GRACE_FRAMES
      text1 == IF away THEN Text("User Away", NoArg) ELSE text
  IN  [posture_text  |-> IF Sedentary(st) THEN Text("Time to Stand up!", NoArg)
                         ELSE text1,
       is_bad        |-> IF Sedentary(st) THEN TRUE ELSE bad_final,
       sit_time      |-> st.duration,
       pressure_data |-> FakePressure(st)]

(* The payload of one frame: text and flag before the session logic, the   *)
(* session state after it.                                                 *)
BuildPayload(text, bad_final, person, missing, st) ==
  LET away == (~person) /\ missing > GRACE_FRAMES
      text1 == IF away THEN Text("User Away", NoArg) ELSE text
  IN  [posture_text  |-> IF Sedentary(st) THEN Text("Time to Stand up!", NoArg)
                         ELSE text1,
       is_bad        |-> IF Sedentary(st) THEN TRUE ELSE bad_final,
       sit_time      |-> st.duration,
       pressure_data |-> FakePressure(st)]

(* ------------------------------ the loop ------------------------------- *)
Init ==
  /\ now = 0
  /\ system_state = [sit_start_time |-> 0, is_sitting |-> FALSE, duration |-> 0]
  /\ filter_history = [smooth_angle |-> InitSmoothAngle * AngleScale,
                       smooth_neck |-> InitSmoothNeck]
  /\ missing_person_frames = 0
  /\ bad_posture_frames = 0
  /\ ret = FALSE
  /\ has_person = FALSE
  /\ is_bad_frame = FALSE
  /\ payload = [posture_text |-> Text("", NoArg), is_bad |-> FALSE,
                sit_time |-> 0, pressure_data |-> <<0, 0, 0, 0>>]
  /\ person_frames = 0
  /\ streak = [n |-> 0, m |-> 0, ok |-> TRUE]
  /\ temp_text = Text("", NoArg)
  /\ visual_text = Text("", NoArg)
  /\ is_bad_final = FALSE
  /\ pc = "top"
  /\ state_lock = "free"
  /\ error = ""
  /\ loop_alive = TRUE
  /\ hull = [seen |-> FALSE, angle_lo |-> 0, angle_hi |-> 0,
             neck_lo |-> 0, neck_hi |-> 0]
  /\ recovery = [on |-> FALSE, c0 |-> 0, k |-> 0]

(* Variant of ReadFail: the failure counts as a frame without a subject. *)
ReadFail_CountsMiss ==
  /\ Whole
  /\ ret' = FALSE
  /\ missing_person_frames < MaxMissing
  /\ missing_person_frames' = missing_person_frames + 1
  /\ UNCHANGED <<now, system_state, filter_history,
                 bad_posture_frames, has_person, is_bad_frame, payload,
                 person_frames, streak, temp_text, hull, recovery>>

(* cap.read() fails: sleep and continue. *)
ReadFail ==
  /\ Whole
  /\ ret' = FALSE
  /\ UNCHANGED <<now, system_state, filter_history, missing_person_frames,
                 bad_posture_frames, has_person, is_bad_frame, payload,
                 person_frames, streak, temp_text, hull, recovery>>

(* An iteration whose frame shows a subject, with raw features sample,     *)
(* the clock having advanced by d since its last reading: everything but   *)
(* the streak history.                                                     *)
DetectedBody(sample, d) ==
  LET fh  == Smooth(filter_history, sample)
      cls == Classify(fh)
      cnt == Debounce(bad_posture_frames, cls.is_bad)
      t   == now + d
      st  == SessionUpdate(system_state, TRUE, 0, t)
      text == IF AlarmActive(cnt) THEN cls.text
              ELSE Text("Good", IntTrunc(fh.smooth_angle, AngleScale))
  IN  /\ t <= MaxTicks
      /\ person_frames < MaxPersonFrames
      /\ ret' = TRUE
      /\ has_person' = TRUE
      /\ missing_person_frames' = 0
      /\ filter_history' = fh
      /\ is_bad_frame' = cls.is_bad
      /\ temp_text' = cls.text
      /\ bad_posture_frames' = cnt
      /\ now' = t
      /\ system_state' = st
      /\ payload' = BuildPayload(text, AlarmActive(cnt), TRUE, 0, st)
      /\ person_frames' = person_frames + 1

(* An iteration whose frame shows no subject: everything but the streak    *)
(* history.                                                                *)
NoPersonBody(d) ==
  LET missing == missing_person_frames + 1
      t  == now + d
      st == SessionUpdate(system_state, FALSE, missing, t)
  IN  /\ t <= MaxTicks
      /\ missing <= MaxMissing
      /\ ret' = TRUE
      /\ has_person' = FALSE
      /\ missing_person_frames' = missing
      /\ bad_posture_frames' = ResetCounter(bad_posture_frames, missing)
      /\ now' = t
      /\ system_state' = st
      /\ payload' = BuildPayload(Text("No Person", NoArg), FALSE, FALSE,
                                 missing, st)
      /\ person_frames' = 0
      /\ UNCHANGED <<filter_history, is_bad_frame, temp_text>>

FrameDetected(sample, d) ==
  Whole /\ DetectedBody(sample, d) /\ UNCHANGED <<streak, hull, recovery>>

FrameNoPerson(d) ==
  Whole /\ NoPersonBody(d) /\ UNCHANGED <<streak, hull, recovery>>

Next ==
  \/ ReadFail
  \/ \E s \in Samples, d \in ClockSteps : FrameDetected(s, d)
  \/ \E d \in ClockSteps : FrameNoPerson(d)

Spec == Init /\ [][Next]_vars

(* The same loop with the streak history recorded and the clock standing   *)
(* still (the counter logic reads neither the clock nor the session).      *)
StreakDetected(sample) ==
  /\ Whole
  /\ UNCHANGED hull
  /\ DetectedBody(sample, 0)
  /\ streak' = StreakStep(streak, bad_posture_frames, is_bad_frame')
  /\ recovery' = RecoveryStep(recovery, bad_posture_frames, is_bad_frame')

StreakNoPerson ==
  /\ Whole
  /\ UNCHANGED hull
  /\ NoPersonBody(0)
  /\ streak' = [n |-> 0, m |-> 0, ok |-> bad_posture_frames' = 0]
  /\ recovery' = [on |-> FALSE, c0 |-> 0, k |-> 0]

NextStreak ==
  \/ ReadFail
  \/ \E s \in Samples : StreakDetected(s)
  \/ StreakNoPerson

SpecStreak == Init /\ [][NextStreak]_vars

(* analyze_posture_smooth alone, on any sequence of raw samples, with the  *)
(* history of the raw values recorded.                                     *)
Analyze(sample) ==
  LET fh  == Smooth(filter_history, sample)
      cls == Classify(fh)
  IN  /\ pc = "top"
      /\ filter_history' = fh
      /\ is_bad_frame' = cls.is_bad
      /\ temp_text' = cls.text
      /\ hull' = HullAdd(hull, sample)
      /\ UNCHANGED <<now, system_state, missing_person_frames,
                     bad_posture_frames, ret, has_person, payload,
                     person_frames, streak, visual_text, is_bad_final, pc,
                     state_lock, error, loop_alive, recovery>>

NextFilter == \E s \in FilterSamples : Analyze(s)

SpecFilter == Init /\ [][NextFilter]_vars

(* --------------------- the iteration, step by step --------------------- *)
(* Variant of OnException: the lock stays with the loop. *)
OnException_KeepsLock(lock) == lock

(* state_lock after an exception has left the try block: the with          *)
(* statement releases the lock on the way out.                             *)
OnException(lock) == IF lock = "loop" THEN "free" ELSE lock

(* A frame is read and the presence of a subject is decided. *)
StepAcquire(person) ==
  /\ pc = "top"
  /\ loop_alive
  /\ ret' = TRUE
  /\ error' = ""
  /\ visual_text' = Text("No Person", NoArg)
  /\ is_bad_final' = FALSE
  /\ has_person' = person
  /\ IF person
       THEN /\ person_frames < MaxStepFrames
            /\ missing_person_frames' = 0
            /\ pc' = "analyze"
            /\ UNCHANGED <<bad_posture_frames, person_frames>>
       ELSE /\ missing_person_frames < MaxMissing
            /\ missing_person_frames' = missing_person_frames + 1
            /\ bad_posture_frames' =
                 ResetCounter(bad_posture_frames, missing_person_frames + 1)
            /\ person_frames' = 0
            /\ pc' = "lock"
  /\ UNCHANGED <<now, system_state, filter_history, is_bad_frame, payload,
                 streak, temp_text, state_lock, loop_alive, hull, recovery>>

(* The analysis, the debounce and the alarm gate of a frame with a subject. *)
StepAnalyze(sample) ==
  LET fh  == Smooth(filter_history, sample)
      cls == Classify(fh)
      cnt == Debounce(bad_posture_frames, cls.is_bad)
  IN  /\ pc = "analyze"
      /\ filter_history' = fh
      /\ is_bad_frame' = cls.is_bad
      /\ temp_text' = cls.text
      /\ bad_posture_frames' = cnt
      /\ visual_text' = IF AlarmActive(cnt) THEN cls.text
                        ELSE Text("Good", IntTrunc(fh.smooth_angle, AngleScale))
      /\ is_bad_final' = AlarmActive(cnt)
      /\ person_frames' = person_frames + 1
      /\ pc' = "lock"
      /\ UNCHANGED <<now, system_state, missing_person_frames, ret,
                     has_person, payload, streak, state_lock, error,
                     loop_alive, hull, recovery>>

(* with state_lock: the loop waits until the lock is free and takes it. *)
StepLock ==
  /\ pc = "lock"
  /\ state_lock = "free"
  /\ state_lock' = "loop"
  /\ pc' = "locked"
  /\ UNCHANGED <<now, system_state, filter_history, missing_person_frames,
                 bad_posture_frames, ret, has_person, is_bad_frame, payload,
                 person_frames, streak, temp_text, visual_text, is_bad_final,
                 error, loop_alive, hull, recovery>>

(* The body of the with statement, the clock having advanced by d, and the *)
(* release of the lock at its end.                                         *)
StepSession(d) ==
  LET t  == now + d
      st == SessionUpdate(system_state, has_person, missing_person_frames, t)
      p  == BuildPayload(visual_text, is_bad_final, has_person,
                         missing_person_frames, st)
  IN  /\ pc = "locked"
      /\ t <= MaxTicks
      /\ now' = t
      /\ system_state' = st
      /\ visual_text' = p.posture_text
      /\ is_bad_final' = p.is_bad
      /\ state_lock' = "free"
      /\ pc' = "emit"
      /\ UNCHANGED <<filter_history, missing_person_frames,
                     bad_posture_frames, ret, has_person, is_bad_frame,
                     payload, person_frames, streak, temp_text, error,
                     loop_alive, hull, recovery>>

(* The pressure vector, the display and the payload are built from the     *)
(* session state as it is now, and the payload is emitted; the key q       *)
(* leaves the loop.                                                        *)
StepEmit(q) ==
  /\ pc = "emit"
  /\ payload' = [posture_text  |-> visual_text,
                 is_bad        |-> is_bad_final,
                 sit_time      |-> system_state.duration,
                 pressure_data |-> FakePressure(system_state)]
  /\ pc' = "top"
  /\ loop_alive' = ~q
  /\ UNCHANGED <<now, system_state, filter_history, missing_person_frames,
                 bad_posture_frames, ret, has_person, is_bad_frame,
                 person_frames, streak, temp_text, visual_text, is_bad_final,
                 state_lock, error, hull, recovery>>

(* A call of the iteration raises an Exception: the handler prints it,     *)
(* sleeps, and the loop starts its next iteration.                         *)
Raise ==
  /\ pc \in {"top", "analyze", "locked", "emit"}
  /\ loop_alive
  /\ error' = pc
  /\ pc' = "top"
  /\ state_lock' = OnException(state_lock)
  /\ UNCHANGED <<now, system_state, filter_history, missing_person_frames,
                 bad_posture_frames, ret, has_person, is_bad_frame, payload,
                 person_frames, streak, temp_text, visual_text, is_bad_final,
                 loop_alive, hull, recovery>>

(* The other execution context takes state_lock to read the session state  *)
(* and gives it back.                                                      *)
AccessorAcquire ==
  /\ state_lock = "free"
  /\ loop_alive
  /\ state_lock' = "accessor"
  /\ UNCHANGED <<now, system_state, filter_history, missing_person_frames,
                 bad_posture_frames, ret, has_person, is_bad_frame, payload,
                 person_frames, streak, temp_text, visual_text, is_bad_final,
                 pc, error, loop_alive, hull, recovery>>

AccessorRelease ==
  /\ state_lock = "accessor"
  /\ state_lock' = "free"
  /\ UNCHANGED <<now, system_state, filter_history, missing_person_frames,
                 bad_posture_frames, ret, has_person, is_bad_frame, payload,
                 person_frames, streak, temp_text, visual_text, is_bad_final,
                 pc, error, loop_alive, hull, recovery>>

(* The order of the steps and the lock do not depend on the raw features:  *)
(* every frame with a subject is taken with the same sample.               *)
NextSteps ==
  \/ ReadFail
  \/ \E person \in BOOLEAN : StepAcquire(person)
  \/ StepAnalyze(HunchSample)
  \/ StepLock
  \/ \E d \in ClockSteps : StepSession(d)
  \/ \E q \in BOOLEAN : StepEmit(q)
  \/ Raise
  \/ AccessorAcquire
  \/ AccessorRelease

SpecSteps == Init /\ [][NextSteps]_vars

(* ------------------------------ properties ----------------------------- *)
(* The step just taken was an iteration with a subject detected (without   *)
(* one); to be used inside [][...]_vars.                                   *)
DetectedStep == ret' /\ has_person'
NoPersonStep == ret' /\ ~has_person'

(* sec is the whole-second part of an interval of ticks clock ticks. *)
WholeSeconds(sec, ticks) ==
  sec * TicksPerSec <= ticks /\ ticks < (sec + 1) * TicksPerSec

(* C1: the bad-frame counter is an integer >= 0 and never exceeds the      *)
(* number of consecutive detected frames since the last no-detection frame *)
(* (or since start).                                                       *)
C1_CounterBounded ==
  /\ bad_posture_frames \in Nat
  /\ bad_posture_frames <= person_frames

(* A run in which every detected frame was bad, past the alarm threshold. *)
W_C1 ==
  /\ bad_posture_frames > ALARM_TRIGGER_FRAMES
  /\ bad_posture_frames = person_frames

(* C2: on every detected frame the counter goes +1 if the frame is         *)
(* classified bad and to max(0, counter - 2) otherwise; from counter 0,    *)
(* n bad frames followed by m good frames leave it at max(0, n - 2m), with *)
(* no upper cap.                                                           *)
C2_Recurrence ==
  /\ [][DetectedStep =>
          bad_posture_frames' =
            IF is_bad_frame' THEN bad_posture_frames + 1
            ELSE IF bad_posture_frames >= 2 THEN bad_posture_frames - 2
            ELSE 0]_vars
  /\ [](streak.ok =>
          bad_posture_frames =
            IF streak.n - 2 * streak.m > 0 THEN streak.n - 2 * streak.m
            ELSE 0)

(* More bad frames than the alarm threshold, then a good frame. *)
W_C2 ==
  /\ streak.ok
  /\ streak.n > ALARM_TRIGGER_FRAMES
  /\ streak.m >= 1
  /\ bad_posture_frames = streak.n - 2 * streak.m

(* C3: an emitted is_bad is true only if the counter is strictly above     *)
(* ALARM_TRIGGER_FRAMES in a frame with a subject, or the duration is      *)
(* above SEDENTARY_LIMIT; at a counter of exactly ALARM_TRIGGER_FRAMES     *)
(* (and no sedentary alert) the payload is not bad and reads "Good"; a     *)
(* posture alarm needs at least ALARM_TRIGGER_FRAMES + 1 frames since the  *)
(* counter was last reset.                                                 *)
C3_AlarmStrict ==
  ret =>
    /\ payload.is_bad =>
         \/ has_person /\ bad_posture_frames > ALARM_TRIGGER_FRAMES
         \/ system_state.duration > SEDENTARY_LIMIT
    /\ ( /\ has_person
         /\ bad_posture_frames = ALARM_TRIGGER_FRAMES
         /\ system_state.duration <= SEDENTARY_LIMIT )
       => ~payload.is_bad /\ payload.posture_text.label = "Good"
    /\ payload.is_bad /\ system_state.duration <= SEDENTARY_LIMIT
       => person_frames >= ALARM_TRIGGER_FRAMES + 1

(* A frame classified bad that brings the counter to the threshold. *)
W_C3 ==
  /\ ret /\ has_person /\ is_bad_frame
  /\ bad_posture_frames = ALARM_TRIGGER_FRAMES
  /\ system_state.duration <= SEDENTARY_LIMIT
  /\ ~payload.is_bad

(* C4: whenever the duration after the session update is above             *)
(* SEDENTARY_LIMIT, the emitted payload reads "Time to Stand up!" and is   *)
(* bad, whatever the classifier and the debouncer produced and whether or  *)
(* not a subject was detected.                                             *)
C4_SedentaryOverrides ==
  (ret /\ system_state.duration > SEDENTARY_LIMIT) =>
    /\ payload.posture_text.label = "Time to Stand up!"
    /\ payload.is_bad

(* The sedentary alert replaces an active posture alarm. *)
W_C4 ==
  /\ ret /\ has_person /\ is_bad_frame
  /\ bad_posture_frames > ALARM_TRIGGER_FRAMES
  /\ system_state.duration > SEDENTARY_LIMIT
  /\ payload.posture_text.label = "Time to Stand up!"

(* C5: from a present session, each of up to 5 consecutive no-detection    *)
(* frames leaves the session as it is (sitting, same start, duration not   *)
(* reset); the 6th resets it: not sitting, duration 0, counter 0.  A       *)
(* detected frame sets the missed-frame count to 0 and continues a present *)
(* session from its start time; a no-detection frame adds 1 to the count.  *)
C5_GraceThenReset ==
  [][ /\ (NoPersonStep /\ system_state.is_sitting) =>
           IF missing_person_frames' <= 5
             THEN /\ system_state' = system_state
                  /\ missing_person_frames' <= missing_person_frames + 1
             ELSE /\ missing_person_frames' = 6
                  /\ ~system_state'.is_sitting
                  /\ system_state'.duration = 0
                  /\ bad_posture_frames' = 0
      /\ NoPersonStep => missing_person_frames' = missing_person_frames + 1
      /\ DetectedStep =>
           /\ missing_person_frames' = 0
           /\ system_state.is_sitting =>
                system_state'.sit_start_time = system_state.sit_start_time
    ]_vars

(* The 6th missed frame has ended a session that began after start. *)
W_C5 ==
  /\ ret /\ ~has_person
  /\ missing_person_frames = 6
  /\ ~system_state.is_sitting
  /\ system_state.sit_start_time > 0

(* C6 as stated: a no-detection frame inside the grace period leaves the   *)
(* session state and the bad-frame counter unchanged.                      *)
C6_AsStated ==
  [][ ( /\ NoPersonStep
        /\ system_state.is_sitting
        /\ missing_person_frames' <= GRACE_FRAMES )
      => /\ system_state' = system_state
         /\ bad_posture_frames' = bad_posture_frames ]_vars

(* C6 amended: a no-detection frame inside the grace period leaves the     *)
(* session state (is_sitting, sit_start_time, duration) unchanged and sets *)
(* the bad-frame counter to 0.                                             *)
C6_GraceKeepsSession ==
  [][ ( /\ NoPersonStep
        /\ system_state.is_sitting
        /\ missing_person_frames' <= GRACE_FRAMES )
      => /\ system_state' = system_state
         /\ bad_posture_frames' = 0 ]_vars

(* The third missed frame of a session whose last detected frame was bad,  *)
(* the clock having advanced since the session began.                      *)
W_C6 ==
  /\ ret /\ ~has_person /\ is_bad_frame
  /\ missing_person_frames = 3
  /\ system_state.is_sitting
  /\ now > system_state.sit_start_time
  /\ bad_posture_frames = 0

(* C7: every no-detection frame sets the counter to 0, the first one       *)
(* already; a detected frame that follows a no-detection frame therefore   *)
(* leaves the counter at 1 at most, whatever came before the gap.          *)
C7_NoPersonResets ==
  [][ /\ NoPersonStep => bad_posture_frames' = 0
      /\ (DetectedStep /\ ret /\ ~has_person) => bad_posture_frames' <= 1
    ]_vars

(* The first frame after a gap is bad at once (the filter still holds the  *)
(* bad frames from before the gap) and the counter restarts at 1.          *)
W_C7 ==
  /\ ret /\ has_person /\ is_bad_frame
  /\ person_frames = 1
  /\ bad_posture_frames = 1

(* C8: the duration is 0 whenever is_sitting is false, and from one state  *)
(* with is_sitting to the next it never decreases (the clock does not run  *)
(* backwards).                                                             *)
C8_DurationShape ==
  /\ [](~system_state.is_sitting => system_state.duration = 0)
  /\ [][ (system_state.is_sitting /\ system_state'.is_sitting)
         => system_state'.duration >= system_state.duration ]_vars

(* A session whose duration has grown twice. *)
W_C8 ==
  /\ system_state.is_sitting
  /\ system_state.duration >= 11

(* C9 as stated: whenever a payload is emitted while is_sitting, sit_time  *)
(* is the whole-second difference between the frame's time and             *)
(* sit_start_time.                                                         *)
C9_AsStated ==
  (ret /\ system_state.is_sitting) =>
    WholeSeconds(payload.sit_time, now - system_state.sit_start_time)

(* C9 amended: in a frame with a subject detected, the emitted sit_time is *)
(* the whole-second difference between the frame's time and                *)
(* sit_start_time; in a no-detection frame inside the grace period the     *)
(* duration is not recomputed and sit_time is the duration the previous    *)
(* frame left.                                                             *)
C9_SitTime ==
  /\ []((ret /\ has_person) =>
          /\ system_state.is_sitting
          /\ WholeSeconds(payload.sit_time, now - system_state.sit_start_time))
  /\ [][ (NoPersonStep /\ missing_person_frames' <= GRACE_FRAMES)
         => payload'.sit_time = system_state.duration ]_vars

(* 5.5 seconds into a session the payload says 5. *)
W_C9 ==
  /\ ret /\ has_person
  /\ now - system_state.sit_start_time = 5 * TicksPerSec + 1
  /\ payload.sit_time = 5

(* C10: sit_start_time changes only in a frame that detects a subject      *)
(* while is_sitting is false (then it becomes the frame's time); every     *)
(* other frame leaves it unchanged.                                        *)
C10_StartOnlyOnEntry ==
  [][ system_state'.sit_start_time # system_state.sit_start_time
      => /\ ~system_state.is_sitting
         /\ system_state'.is_sitting
         /\ DetectedStep
         /\ system_state'.sit_start_time = now' ]_vars

(* A detection that ends a dropout inside the grace period of a session    *)
(* begun after start: the start time is still the original one.            *)
W_C10 ==
  /\ ret /\ has_person
  /\ system_state.is_sitting
  /\ system_state.sit_start_time > 0
  /\ now > system_state.sit_start_time
  /\ person_frames = 1

(* C12: first match wins on the smoothed values: an angle below the       *)
(* threshold is Hunchback and bad whatever the neck offset; otherwise a    *)
(* neck offset above its threshold is Neck Forward and bad; otherwise Good *)
(* and not bad.  Both comparisons are strict.                              *)
C12_FirstMatchWins ==
  LET a == filter_history.smooth_angle
      n == filter_history.smooth_neck
      low == a < POSTURE_ANGLE_THRESHOLD * AngleScale
      fwd == n * NeckThresholdDen > NeckThresholdNum * NeckScale
  IN  hull.seen =>
        /\ low => temp_text.label = "Hunchback" /\ is_bad_frame
        /\ (~low /\ fwd) => temp_text.label = "Neck Forward" /\ is_bad_frame
        /\ (~low /\ ~fwd) => temp_text.label = "Good" /\ ~is_bad_frame

(* Both rules match and the first one wins. *)
W_C12 ==
  /\ hull.seen
  /\ filter_history.smooth_angle < POSTURE_ANGLE_THRESHOLD * AngleScale
  /\ filter_history.smooth_neck * NeckThresholdDen
       > NeckThresholdNum * NeckScale
  /\ temp_text.label = "Hunchback"

(* C13 as stated: each smoothed value lies between the least and the       *)
(* greatest raw value observed so far, and equals the prior before any     *)
(* frame with a subject.                                                   *)
C13_AsStated ==
  IF hull.seen
    THEN /\ hull.angle_lo <= filter_history.smooth_angle
         /\ filter_history.smooth_angle <= hull.angle_hi
         /\ hull.neck_lo <= filter_history.smooth_neck
         /\ filter_history.smooth_neck <= hull.neck_hi
    ELSE /\ filter_history.smooth_angle = InitSmoothAngle * AngleScale
         /\ filter_history.smooth_neck = InitSmoothNeck

(* The rounding of the float operations can carry a smoothed value past    *)
(* the hull by this many grid units at most (2 roundings of 1/2 unit a     *)
(* step, damped by 1 - alpha a step).                                      *)
RoundSlack == SmoothDen \div SmoothNum

(* C13 amended: each smoothed value lies between the least and the         *)
(* greatest of the initial prior and the raw values observed so far, up to *)
(* the rounding of the float operations; before any frame with a subject   *)
(* it equals the prior.                                                    *)
C13_HullWithPrior ==
  LET pa == InitSmoothAngle * AngleScale
      pn == InitSmoothNeck
      lo(x, y) == IF x < y THEN x ELSE y
      hi(x, y) == IF x > y THEN x ELSE y
  IN  IF hull.seen
        THEN /\ lo(pa, hull.angle_lo) - RoundSlack
                  <= filter_history.smooth_angle
             /\ filter_history.smooth_angle
                  <= hi(pa, hull.angle_hi) + RoundSlack
             /\ lo(pn, hull.neck_lo) - RoundSlack
                  <= filter_history.smooth_neck
             /\ filter_history.smooth_neck
                  <= hi(pn, hull.neck_hi) + RoundSlack
        ELSE /\ filter_history.smooth_angle = pa
             /\ filter_history.smooth_neck = pn

(* All raw angles seen were below the prior, and rounding has carried the  *)
(* smoothed angle below the least of them.                                 *)
W_C13 ==
  /\ hull.seen
  /\ hull.angle_hi < InitSmoothAngle * AngleScale
  /\ filter_history.smooth_angle < hull.angle_lo

(* C15: an iteration whose read fails changes neither the filter state,   *)
(* nor the two counters, nor the session state, and emits no payload; in   *)
(* particular it is not counted as a missed frame.                         *)
C15_ReadFailureInert ==
  [][~ret' => UNCHANGED <<filter_history, bad_posture_frames,
                          missing_person_frames, system_state, payload>>]_vars

(* A read failure inside the grace period, after bad frames. *)
W_C15 ==
  /\ ~ret
  /\ missing_person_frames \in 1..GRACE_FRAMES
  /\ system_state.is_sitting
  /\ payload.posture_text.label = "No Person"
  /\ filter_history.smooth_angle < POSTURE_ANGLE_THRESHOLD * AngleScale

(* C16: in every emitted payload pressure_data has 4 entries, all 0.25     *)
(* when is_sitting is true at emission and all 0 when it is false.         *)
C16_PressureTracksSitting ==
  ret =>
    /\ Len(payload.pressure_data) = 4
    /\ system_state.is_sitting =>
         \A i \in 1..4 : payload.pressure_data[i] = 25
    /\ ~system_state.is_sitting =>
         \A i \in 1..4 : payload.pressure_data[i] = 0

(* A frame without a subject inside the grace period: the vector is still  *)
(* non-zero.                                                               *)
W_C16 ==
  /\ ret
  /\ ~has_person
  /\ missing_person_frames \in 1..GRACE_FRAMES
  /\ payload.pressure_data = <<25, 25, 25, 25>>

(* C17: a frame with a subject, taken while is_sitting is false, sets      *)
(* is_sitting, sets sit_start_time to the time read in that frame, and     *)
(* reports sit_time = 0.                                                   *)
C17_SessionStartsFresh ==
  [][(DetectedStep /\ ~system_state.is_sitting) =>
       /\ system_state'.is_sitting
       /\ system_state'.sit_start_time = now'
       /\ system_state'.duration = 0
       /\ payload'.sit_time = 0]_vars

(* The first frame of a session that is not the first one: the clock has   *)
(* advanced and the filter carries earlier frames.                         *)
W_C17 ==
  /\ ret
  /\ has_person
  /\ person_frames = 1
  /\ now > SEDENTARY_LIMIT * TicksPerSec
  /\ system_state.sit_start_time = now
  /\ payload.sit_time = 0
  /\ filter_history.smooth_angle < POSTURE_ANGLE_THRESHOLD * AngleScale

(* C18: the filter state changes only in a frame with a subject, and such  *)
(* a frame applies one EMA step to it.                                     *)
C18_FilterOnlyOnDetection ==
  [][/\ filter_history' # filter_history => DetectedStep
     /\ DetectedStep =>
          \E s \in Samples :
            /\ filter_history'.smooth_angle
                 = Ema(s[1], filter_history.smooth_angle)
            /\ filter_history'.smooth_neck
                 = Ema(s[2], filter_history.smooth_neck)]_vars

(* The session has been reset and the filter still holds the smoothed      *)
(* values of its frames.                                                   *)
W_C18 ==
  /\ ret
  /\ ~has_person
  /\ missing_person_frames > GRACE_FRAMES
  /\ ~system_state.is_sitting
  /\ filter_history.smooth_angle < POSTURE_ANGLE_THRESHOLD * AngleScale

(* C19: in a run of k good frames with a subject that began with the       *)
(* counter at c0 > ALARM_TRIGGER_FRAMES, the posture alarm is still active *)
(* while k < (c0 - ALARM_TRIGGER_FRAMES) / 2 and is inactive from          *)
(* k = ceil((c0 - ALARM_TRIGGER_FRAMES) / 2) on.                           *)
C19_RecoveryDelay ==
  (ret /\ has_person /\ recovery.on /\ recovery.c0 > ALARM_TRIGGER_FRAMES) =>
    (payload.is_bad <=> 2 * recovery.k < recovery.c0 - ALARM_TRIGGER_FRAMES)

(* A recovery that takes more than one frame, at its end. *)
W_C19 ==
  /\ ret
  /\ has_person
  /\ recovery.on
  /\ recovery.c0 > ALARM_TRIGGER_FRAMES + 2
  /\ recovery.k = 2
  /\ ~payload.is_bad

(* C20: the payload of a frame without a subject has is_bad false and the  *)
(* text No Person (at most 5 missed frames) or User Away (more), unless    *)
(* the duration exceeds SEDENTARY_LIMIT, which happens only inside the     *)
(* grace period; past the grace period the text is User Away, is_bad is    *)
(* false and sit_time is 0.                                                *)
C20_NoSubjectPayload ==
  (ret /\ ~has_person) =>
    /\ IF system_state.duration > SEDENTARY_LIMIT
         THEN missing_person_frames <= GRACE_FRAMES
         ELSE /\ ~payload.is_bad
              /\ payload.posture_text.label =
                   (IF missing_person_frames <= GRACE_FRAMES
                      THEN "No Person" ELSE "User Away")
    /\ missing_person_frames > GRACE_FRAMES =>
         /\ payload.posture_text.label = "User Away"
         /\ ~payload.is_bad
         /\ payload.sit_time = 0

(* The frame that resets a session begun more than SEDENTARY_LIMIT seconds *)
(* before.                                                                 *)
W_C20 ==
  /\ ret
  /\ ~has_person
  /\ missing_person_frames = GRACE_FRAMES + 1
  /\ now - system_state.sit_start_time > SEDENTARY_LIMIT * TicksPerSec
  /\ payload.posture_text.label = "User Away"
  /\ payload.sit_time = 0

(* C11 as stated: wherever the loop reads or writes the session state, in  *)
(* the body of the with statement and in the building of the pressure      *)
(* vector, the display and the payload, it holds state_lock.               *)
C11_AsStated ==
  pc \in {"locked", "emit"} => state_lock = "loop"

(* C14: after an exception raised anywhere in an iteration the loop is     *)
(* still running, is at the start of its next iteration and does not hold  *)
(* state_lock; no iteration starts with the lock held by the loop.         *)
C14_ExceptionKeepsLoop ==
  /\ error # "" => (loop_alive /\ pc = "top" /\ state_lock # "loop")
  /\ pc = "top" => state_lock # "loop"

(* An exception was raised inside the with statement. *)
W_C14 ==
  /\ error = "locked"
  /\ pc = "top"
  /\ loop_alive
  /\ state_lock = "free"

====
